---- MODULE Spec2Model ----
(***************************************************************************)
(* A model of the token-bucket rate limiter of ratelimiter.go.             *)
(*                                                                         *)
(* Time is discrete.  The clock itself is not stored: the model keeps the  *)
(* differences the code's comparisons depend on (rl.expiry - time.Now(),   *)
(* the time left until the ticker fires), and the action Tick lets one     *)
(* time unit pass.  Two reads of time.Now() with no Tick between them      *)
(* return the same instant.                                                *)
(*                                                                         *)
(* The refill goroutine accesses rl.burst and rl.maxBurst without taking   *)
(* rl.mu, so its check, load and store of rl.burst are separate steps that *)
(* interleave with the steps Use performs while it holds the mutex.        *)
(***************************************************************************)
EXTENDS Integers, Sequences, FiniteSets, TLC

\* ---------------------------------------------------------------- bounds
NumProcs == 2
MaxBurstArg == 2
MaxIntervalArg == 2
MaxSpacingArg == 2
MaxCount == 3
MaxWaits == 1

Procs == 1 .. NumProcs
BurstArgs == 0 .. MaxBurstArg
IntervalArgs == 0 .. MaxIntervalArg
SpacingArgs == 0 .. MaxSpacingArg

Min(a, b) == IF a < b THEN a ELSE b
Max(a, b) == IF a > b THEN a ELSE b

VARIABLES
    opts,           \* the RateLimiterOptions handed to NewRateLimiterWithBurst
    err,            \* "pending" before the constructor ran, then its error result
    burst,          \* rl.burst
    maxBurst,       \* rl.maxBurst
    burstInterval,  \* rl.burstInterval
    expiry,         \* rl.expiry - time.Now(), kept down to -1 (any past instant)
    interval,       \* rl.interval
    ticker,         \* rl.ticker: [made, active, period, left]
    tickC,          \* number of ticks buffered in rl.ticker.C (capacity 1)
    mu,             \* rl.mu: 0 when free, else the caller holding it
    ctxDone,        \* the constructor's ctx is cancelled
    refillPc,       \* position of the refill goroutine
    refillSpawned,  \* number of refill goroutines started so far
    rreg,           \* the value of rl.burst the refill goroutine loaded
    pc,             \* position of each caller
    inWait,         \* the caller is inside Wait (its goroutine runs Use)
    waitCtxDone,    \* the ctx the callers hand to Wait is cancelled
    waitsLeft,      \* Wait calls each caller may still make
    ureg,           \* the value of rl.burst a caller's Use loaded
    taken,          \* permits the caller's current call has taken from rl.burst
    returned,       \* what the call that returned in the last step returned
    sinceUse,       \* time since the last successful Use read the clock (capped)
    sinceRet,       \* time since the last successful Use returned (capped)
    fresh,          \* no tick was sent and no setter changed rl since construction
    nSucc,          \* while fresh: Use calls that returned true (capped)
    nFail,          \* while fresh: Use calls that returned false (capped)
    ceiling         \* what SetBurst did to rl.maxBurst: "initial", "raised", "lowered"

rlVars == <<burst, maxBurst, burstInterval, expiry, interval, ticker, tickC, mu>>
refillVars == <<refillPc, refillSpawned, rreg>>
callVars == <<pc, inWait, waitsLeft, ureg, taken>>
obsVars == <<sinceUse, sinceRet, fresh, nSucc, nFail, ceiling>>
vars == <<opts, err, ctxDone, waitCtxDone, rlVars, refillVars, callVars, returned, obsVars>>

\* No call returned in this step.
NoRet == [op |-> "none", val |-> 0, error |-> "nil"]

\* A call of op returned the value val (Use: 1 for true, 0 for false; an
\* accessor: the number) or the error error.
Ret(op, val, error) == [op |-> op, val |-> val, error |-> error]

\* The options once the constructor has consumed them.
NoOpts == [BurstAmount |-> 0, BurstInterval |-> 0, Interval |-> 0]

NoTicker == [made |-> FALSE, active |-> FALSE, period |-> 0, left |-> 0]

\* time.NewTicker(d): a running ticker whose first tick is d from now.
NewTicker(d) == [made |-> TRUE, active |-> TRUE, period |-> d, left |-> d]

\* (*Ticker).Reset(d): stops the ticker and restarts it with period d; a
\* stopped ticker runs again.
TickerReset(t, d) == [t EXCEPT !.active = TRUE, !.period = d, !.left = d]

\* (*Ticker).Stop(): no more ticks are sent.
TickerStop(t) == [t EXCEPT !.active = FALSE]

Cap(n) == Min(n, MaxCount)

\* sinceUse and sinceRet before any Use succeeded, and the value they are
\* capped at.
Never == 0 - 1
SinceCap == Max(MaxSpacingArg, MaxIntervalArg) + 1

Init ==
    /\ opts \in [BurstAmount : BurstArgs, BurstInterval : SpacingArgs,
                 Interval : IntervalArgs]
    /\ err = "pending"
    /\ burst = 0
    /\ maxBurst = 0
    /\ burstInterval = 0
    /\ expiry = 0
    /\ interval = 0
    /\ ticker = NoTicker
    /\ tickC = 0
    /\ mu = 0
    /\ ctxDone = FALSE
    /\ waitCtxDone = FALSE
    /\ refillPc = "none"
    /\ refillSpawned = 0
    /\ rreg = 0
    /\ pc = [p \in Procs |-> "idle"]
    /\ inWait = [p \in Procs |-> FALSE]
    /\ waitsLeft = [p \in Procs |-> MaxWaits]
    /\ ureg = [p \in Procs |-> 0]
    /\ taken = [p \in Procs |-> 0]
    /\ returned = NoRet
    /\ sinceUse = Never
    /\ sinceRet = Never
    /\ fresh = TRUE
    /\ nSucc = 0
    /\ nFail = 0
    /\ ceiling = "initial"

\* ------------------------------------------------------------ constructor
\* A faulty constructor that validates Interval before BurstAmount.
NewRateLimiterIntervalFirst ==
    /\ err = "pending"
    /\ IF opts.Interval < 1
       THEN /\ err' = "ErrInterval"
            /\ UNCHANGED <<rlVars, refillVars>>
       ELSE IF opts.BurstAmount < 1
       THEN /\ err' = "ErrBurst"
            /\ UNCHANGED <<rlVars, refillVars>>
       ELSE /\ err' = "nil"
            /\ burst' = opts.BurstAmount
            /\ maxBurst' = opts.BurstAmount
            /\ interval' = opts.Interval
            /\ burstInterval' = opts.BurstInterval
            /\ expiry' = 0
            /\ ticker' = NewTicker(opts.Interval)
            /\ refillPc' = "select"
            /\ refillSpawned' = refillSpawned + 1
            /\ UNCHANGED <<tickC, mu, rreg>>
    /\ opts' = NoOpts
    /\ returned' = NoRet
    /\ UNCHANGED <<ctxDone, waitCtxDone, callVars, obsVars>>

\* NewRateLimiterWithBurst: validates opts, builds rl, creates the ticker and
\* starts the refill goroutine.
NewRateLimiterWithBurst ==
    /\ err = "pending"
    /\ IF opts.BurstAmount < 1
       THEN /\ err' = "ErrBurst"
            /\ UNCHANGED <<rlVars, refillVars>>
       ELSE IF opts.Interval < 1
       THEN /\ err' = "ErrInterval"
            /\ UNCHANGED <<rlVars, refillVars>>
       ELSE /\ err' = "nil"
            /\ burst' = opts.BurstAmount
            /\ maxBurst' = opts.BurstAmount
            /\ interval' = opts.Interval
            /\ burstInterval' = opts.BurstInterval
            /\ expiry' = 0
            /\ ticker' = NewTicker(opts.Interval)
            /\ refillPc' = "select"
            /\ refillSpawned' = refillSpawned + 1
            /\ UNCHANGED <<tickC, mu, rreg>>
    /\ opts' = NoOpts
    /\ returned' = NoRet
    /\ UNCHANGED <<ctxDone, waitCtxDone, callVars, obsVars>>

\* The limiter exists: every method below is called on a non-nil *RateLimiter.
Built == err = "nil"

\* ------------------------------------------------------------------ time
\* A running ticker whose time is up sends a tick on its channel (dropped
\* when the one-slot buffer is full) and starts its next period.
TickerFires(t) == t.active /\ t.left <= 1

TickerAfter(t) ==
    IF ~t.active THEN t
    ELSE IF t.left > 1 THEN [t EXCEPT !.left = t.left - 1]
    ELSE [t EXCEPT !.left = t.period]

\* One time unit passes.
Tick ==
    /\ Built
    /\ expiry' = Max(expiry - 1, 0 - 1)
    /\ ticker' = TickerAfter(ticker)
    /\ tickC' = IF TickerFires(ticker) THEN 1 ELSE tickC
    /\ sinceUse' = IF sinceUse = Never THEN Never ELSE Min(sinceUse + 1, SinceCap)
    /\ sinceRet' = IF sinceRet = Never THEN Never ELSE Min(sinceRet + 1, SinceCap)
    /\ fresh' = (fresh /\ ~TickerFires(ticker))
    /\ nSucc' = IF fresh' THEN nSucc ELSE 0
    /\ nFail' = IF fresh' THEN nFail ELSE 0
    /\ returned' = NoRet
    /\ UNCHANGED <<opts, err, ctxDone, waitCtxDone, burst, maxBurst, burstInterval, interval, mu>>
    /\ UNCHANGED <<refillVars, callVars, ceiling>>

\* The owner of the constructor's ctx cancels it.
CancelCtx ==
    /\ Built
    /\ ~ctxDone
    /\ ctxDone' = TRUE
    /\ returned' = NoRet
    /\ UNCHANGED <<opts, err, waitCtxDone, rlVars, refillVars, callVars, obsVars>>

\* ------------------------------------------------------ refill goroutine
\* A faulty refill that stops the ticker on ctx.Done() but stays in its loop.
RefillDoneNoReturn ==
    /\ refillPc = "select"
    /\ ctxDone
    /\ ticker' = TickerStop(ticker)
    /\ refillPc' = "select"
    /\ returned' = NoRet
    /\ UNCHANGED <<opts, err, ctxDone, waitCtxDone, burst, maxBurst, burstInterval, expiry, interval, tickC, mu>>
    /\ UNCHANGED <<refillSpawned, rreg, callVars, obsVars>>

\* select, case <-ctx.Done(): stop the ticker and return.
RefillDone ==
    /\ refillPc = "select"
    /\ ctxDone
    /\ ticker' = TickerStop(ticker)
    /\ refillPc' = "exited"
    /\ returned' = NoRet
    /\ UNCHANGED <<opts, err, ctxDone, waitCtxDone, burst, maxBurst, burstInterval, expiry, interval, tickC, mu>>
    /\ UNCHANGED <<refillSpawned, rreg, callVars, obsVars>>

\* select, case <-rl.ticker.C: a buffered tick is received.
RefillRecv ==
    /\ refillPc = "select"
    /\ tickC > 0
    /\ tickC' = tickC - 1
    /\ refillPc' = "check"
    /\ returned' = NoRet
    /\ UNCHANGED <<opts, err, ctxDone, waitCtxDone, burst, maxBurst, burstInterval, expiry, interval, ticker, mu>>
    /\ UNCHANGED <<refillSpawned, rreg, callVars, obsVars>>

\* if rl.burst < rl.maxBurst, read without rl.mu.  The value of rl.burst read
\* here is either reused by the increment or loaded again.
RefillCheck ==
    /\ refillPc = "check"
    /\ IF burst < maxBurst
       THEN /\ refillPc' \in {"load", "store"}
            /\ rreg' = burst
       ELSE /\ refillPc' = "select"
            /\ rreg' = 0
    /\ returned' = NoRet
    /\ UNCHANGED <<opts, err, ctxDone, waitCtxDone, rlVars, refillSpawned, callVars, obsVars>>

\* rl.burst += 1, first half: load rl.burst.
RefillLoad ==
    /\ refillPc = "load"
    /\ rreg' = burst
    /\ refillPc' = "store"
    /\ returned' = NoRet
    /\ UNCHANGED <<opts, err, ctxDone, waitCtxDone, rlVars, refillSpawned, callVars, obsVars>>

\* A faulty refill whose store adds nothing to rl.burst.
RefillStoreNoIncrement ==
    /\ refillPc = "store"
    /\ burst' = rreg
    /\ rreg' = 0
    /\ refillPc' = "select"
    /\ returned' = NoRet
    /\ UNCHANGED <<opts, err, ctxDone, waitCtxDone, maxBurst, burstInterval, expiry, interval, ticker, tickC, mu>>
    /\ UNCHANGED <<refillSpawned, callVars, obsVars>>

\* rl.burst += 1, second half: store the loaded value plus one.
RefillStore ==
    /\ refillPc = "store"
    /\ burst' = rreg + 1
    /\ rreg' = 0
    /\ refillPc' = "select"
    /\ returned' = NoRet
    /\ UNCHANGED <<opts, err, ctxDone, waitCtxDone, maxBurst, burstInterval, expiry, interval, ticker, tickC, mu>>
    /\ UNCHANGED <<refillSpawned, callVars, obsVars>>

Refill == RefillDone \/ RefillRecv \/ RefillCheck \/ RefillLoad \/ RefillStore

\* ------------------------------------------------------------------- Use
\* Where a Use that ends goes: back to its caller, or, inside Wait, back to
\* the goroutine's loop (false) or on to the send on allow (true).
AfterUse(p, ok) ==
    IF inWait[p] THEN (IF ok THEN "send" ELSE "select") ELSE "idle"

\* What the caller sees in the step a Use ends: its result, or nothing yet
\* when the Use was made by Wait's goroutine.
RetAfterUse(p, ok) ==
    IF inWait[p] THEN NoRet ELSE Ret("Use", IF ok THEN 1 ELSE 0, "nil")

\* rl.expiry.Before(time.Now())
ExpiryBeforeNow == expiry < 0

\* rl.burst > 0 && rl.expiry.Before(time.Now())
UseCondition == burst > 0 /\ ExpiryBeforeNow

\* A faulty Use that restarts the ticker before it tests the condition.
UseBeginResetFirst(p) ==
    /\ Built
    /\ pc[p] = (IF inWait[p] THEN "use" ELSE "idle")
    /\ mu = 0
    /\ ticker' = TickerReset(ticker, interval)
    /\ IF UseCondition
       THEN /\ mu' = p
            /\ pc' = [pc EXCEPT ![p] = "expiry"]
            /\ returned' = NoRet
            /\ UNCHANGED nFail
       ELSE /\ mu' = 0
            /\ pc' = [pc EXCEPT ![p] = AfterUse(p, FALSE)]
            /\ returned' = RetAfterUse(p, FALSE)
            /\ nFail' = IF fresh THEN Cap(nFail + 1) ELSE 0
    /\ taken' = [taken EXCEPT ![p] = IF inWait[p] THEN taken[p] ELSE 0]
    /\ UNCHANGED <<opts, err, ctxDone, waitCtxDone, burst, maxBurst, burstInterval, expiry, interval, tickC>>
    /\ UNCHANGED <<refillVars, inWait, waitsLeft, ureg, sinceUse, sinceRet, fresh, nSucc, ceiling>>

\* Use, lines 84-87 and 94: lock rl.mu and test the condition; when it fails
\* the call returns false (the deferred Unlock runs).
UseBegin(p) ==
    /\ Built
    /\ pc[p] = (IF inWait[p] THEN "use" ELSE "idle")
    /\ mu = 0
    /\ IF UseCondition
       THEN /\ mu' = p
            /\ pc' = [pc EXCEPT ![p] = "expiry"]
            /\ returned' = NoRet
            /\ UNCHANGED nFail
       ELSE /\ mu' = 0
            /\ pc' = [pc EXCEPT ![p] = AfterUse(p, FALSE)]
            /\ returned' = RetAfterUse(p, FALSE)
            /\ nFail' = IF fresh THEN Cap(nFail + 1) ELSE 0
    /\ taken' = [taken EXCEPT ![p] = IF inWait[p] THEN taken[p] ELSE 0]
    /\ UNCHANGED <<opts, err, ctxDone, waitCtxDone, burst, maxBurst, burstInterval, expiry, interval, ticker, tickC>>
    /\ UNCHANGED <<refillVars, inWait, waitsLeft, ureg, sinceUse, sinceRet, fresh, nSucc, ceiling>>

\* A faulty Use that stores the clock reading without adding burstInterval.
UseExpiryNoSpacing(p) ==
    /\ pc[p] = "expiry"
    /\ expiry' = 0
    /\ sinceUse' = 0
    /\ pc' = [pc EXCEPT ![p] = "load"]
    /\ returned' = NoRet
    /\ UNCHANGED <<opts, err, ctxDone, waitCtxDone, burst, maxBurst, burstInterval, interval, ticker, tickC, mu>>
    /\ UNCHANGED <<refillVars, inWait, waitsLeft, ureg, taken, sinceRet, fresh, nSucc, nFail, ceiling>>

\* rl.expiry = time.Now().Add(rl.burstInterval)
UseExpiry(p) ==
    /\ pc[p] = "expiry"
    /\ expiry' = burstInterval
    /\ sinceUse' = 0
    /\ pc' = [pc EXCEPT ![p] = "load"]
    /\ returned' = NoRet
    /\ UNCHANGED <<opts, err, ctxDone, waitCtxDone, burst, maxBurst, burstInterval, interval, ticker, tickC, mu>>
    /\ UNCHANGED <<refillVars, inWait, waitsLeft, ureg, taken, sinceRet, fresh, nSucc, nFail, ceiling>>

\* rl.burst -= 1, first half: load rl.burst.
UseLoad(p) ==
    /\ pc[p] = "load"
    /\ ureg' = [ureg EXCEPT ![p] = burst]
    /\ pc' = [pc EXCEPT ![p] = "store"]
    /\ returned' = NoRet
    /\ UNCHANGED <<opts, err, ctxDone, waitCtxDone, rlVars, refillVars, inWait, waitsLeft, taken, obsVars>>

\* rl.burst -= 1, second half: store the loaded value minus one.
UseStore(p) ==
    /\ pc[p] = "store"
    /\ burst' = ureg[p] - 1
    /\ ureg' = [ureg EXCEPT ![p] = 0]
    /\ taken' = [taken EXCEPT ![p] = taken[p] + 1]
    /\ pc' = [pc EXCEPT ![p] = "reset"]
    /\ returned' = NoRet
    /\ UNCHANGED <<opts, err, ctxDone, waitCtxDone, maxBurst, burstInterval, expiry, interval, ticker, tickC, mu>>
    /\ UNCHANGED <<refillVars, inWait, waitsLeft, obsVars>>

\* rl.ticker.Reset(rl.interval); return true (the deferred Unlock runs).
UseReset(p) ==
    /\ pc[p] = "reset"
    /\ ticker' = TickerReset(ticker, interval)
    /\ mu' = 0
    /\ pc' = [pc EXCEPT ![p] = AfterUse(p, TRUE)]
    /\ returned' = RetAfterUse(p, TRUE)
    /\ nSucc' = IF fresh THEN Cap(nSucc + 1) ELSE 0
    /\ sinceRet' = 0
    /\ UNCHANGED <<opts, err, ctxDone, waitCtxDone, burst, maxBurst, burstInterval, expiry, interval, tickC>>
    /\ UNCHANGED <<refillVars, inWait, waitsLeft, ureg, taken, sinceUse, fresh, nFail, ceiling>>

Use(p) == UseBegin(p) \/ UseExpiry(p) \/ UseLoad(p) \/ UseStore(p) \/ UseReset(p)

\* ------------------------------------------------------------------ Wait
\* Wait(ctx): make the channel allow, start the goroutine and block on
\* <-allow.
WaitCall(p) ==
    /\ Built
    /\ pc[p] = "idle"
    /\ waitsLeft[p] > 0
    /\ waitsLeft' = [waitsLeft EXCEPT ![p] = waitsLeft[p] - 1]
    /\ inWait' = [inWait EXCEPT ![p] = TRUE]
    /\ taken' = [taken EXCEPT ![p] = 0]
    /\ pc' = [pc EXCEPT ![p] = "select"]
    /\ returned' = NoRet
    /\ UNCHANGED <<opts, err, ctxDone, waitCtxDone, rlVars, refillVars, ureg, obsVars>>

\* The owner of the ctx handed to Wait cancels it.
WaitCancel ==
    /\ Built
    /\ ~waitCtxDone
    /\ waitCtxDone' = TRUE
    /\ returned' = NoRet
    /\ UNCHANGED <<opts, err, ctxDone, rlVars, refillVars, callVars, obsVars>>

\* The goroutine's select: case <-ctx.Done() returns from the goroutine,
\* with no send on allow; default goes on to rl.Use().
WaitSelect(p) ==
    /\ pc[p] = "select"
    /\ pc' = [pc EXCEPT ![p] = IF waitCtxDone THEN "gone" ELSE "use"]
    /\ returned' = NoRet
    /\ UNCHANGED <<opts, err, ctxDone, waitCtxDone, rlVars, refillVars, inWait, waitsLeft, ureg, taken, obsVars>>

\* allow <- struct{}{} meets the caller's <-allow: the goroutine returns, and
\* Wait returns (the deferred close(allow) runs).
WaitSend(p) ==
    /\ pc[p] = "send"
    /\ pc' = [pc EXCEPT ![p] = "idle"]
    /\ inWait' = [inWait EXCEPT ![p] = FALSE]
    /\ returned' = Ret("Wait", taken[p], "nil")
    /\ UNCHANGED <<opts, err, ctxDone, waitCtxDone, rlVars, refillVars, waitsLeft, ureg, taken, obsVars>>

Wait(p) == WaitCall(p) \/ WaitSelect(p) \/ WaitSend(p)

\* --------------------------------------------------------------- setters
\* The record of what SetBurst did to the ceiling: once lowered, always
\* "lowered"; otherwise "raised" once a call has raised it.
CeilingAfter(newMaxBurst) ==
    IF ceiling = "lowered" \/ newMaxBurst < maxBurst THEN "lowered"
    ELSE IF newMaxBurst > maxBurst THEN "raised"
    ELSE ceiling

\* A faulty SetBurst that also fills rl.burst up to the new ceiling.
SetBurstRefilling(p, newMaxBurst) ==
    /\ Built
    /\ pc[p] = "idle"
    /\ mu = 0
    /\ IF newMaxBurst < 1
       THEN /\ returned' = Ret("SetBurst", newMaxBurst, "ErrBurst")
            /\ UNCHANGED <<burst, maxBurst, fresh, nSucc, nFail, ceiling>>
       ELSE /\ maxBurst' = newMaxBurst
            /\ burst' = newMaxBurst
            /\ returned' = Ret("SetBurst", newMaxBurst, "nil")
            /\ fresh' = FALSE
            /\ nSucc' = 0
            /\ nFail' = 0
            /\ ceiling' = CeilingAfter(newMaxBurst)
    /\ UNCHANGED <<opts, err, ctxDone, waitCtxDone, burstInterval, expiry, interval, ticker, tickC, mu>>
    /\ UNCHANGED <<refillVars, callVars, sinceUse, sinceRet>>

\* A faulty SetBurst that stores its argument without validating it.
SetBurstUnchecked(p, newMaxBurst) ==
    /\ Built
    /\ pc[p] = "idle"
    /\ mu = 0
    /\ maxBurst' = newMaxBurst
    /\ returned' = Ret("SetBurst", newMaxBurst, "nil")
    /\ fresh' = FALSE
    /\ nSucc' = 0
    /\ nFail' = 0
    /\ ceiling' = CeilingAfter(newMaxBurst)
    /\ UNCHANGED <<opts, err, ctxDone, waitCtxDone, burst, burstInterval, expiry, interval, ticker, tickC, mu>>
    /\ UNCHANGED <<refillVars, callVars, sinceUse, sinceRet>>

\* SetBurst(newMaxBurst); the returned record keeps the argument in val.
SetBurst(p, newMaxBurst) ==
    /\ Built
    /\ pc[p] = "idle"
    /\ mu = 0
    /\ IF newMaxBurst < 1
       THEN /\ returned' = Ret("SetBurst", newMaxBurst, "ErrBurst")
            /\ UNCHANGED <<maxBurst, fresh, nSucc, nFail, ceiling>>
       ELSE /\ maxBurst' = newMaxBurst
            /\ returned' = Ret("SetBurst", newMaxBurst, "nil")
            /\ fresh' = FALSE
            /\ nSucc' = 0
            /\ nFail' = 0
            /\ ceiling' = CeilingAfter(newMaxBurst)
    /\ UNCHANGED <<opts, err, ctxDone, waitCtxDone, burst, burstInterval, expiry, interval, ticker, tickC, mu>>
    /\ UNCHANGED <<refillVars, callVars, sinceUse, sinceRet>>

\* A faulty SetInterval that restarts the ticker before it validates.
SetIntervalResetFirst(p, newInterval) ==
    /\ Built
    /\ pc[p] = "idle"
    /\ mu = 0
    /\ IF newInterval < 1
       THEN /\ returned' = Ret("SetInterval", newInterval, "ErrInterval")
            /\ ticker' = TickerReset(ticker, interval)
            /\ UNCHANGED <<interval, fresh, nSucc, nFail>>
       ELSE /\ interval' = newInterval
            /\ ticker' = TickerReset(ticker, newInterval)
            /\ returned' = Ret("SetInterval", newInterval, "nil")
            /\ fresh' = FALSE
            /\ nSucc' = 0
            /\ nFail' = 0
    /\ UNCHANGED <<opts, err, ctxDone, waitCtxDone, burst, maxBurst, burstInterval, expiry, tickC, mu>>
    /\ UNCHANGED <<refillVars, callVars, sinceUse, sinceRet, ceiling>>

\* A faulty SetInterval that stores the interval and leaves the ticker running
\* on its old period.
SetIntervalNoReset(p, newInterval) ==
    /\ Built
    /\ pc[p] = "idle"
    /\ mu = 0
    /\ IF newInterval < 1
       THEN /\ returned' = Ret("SetInterval", newInterval, "ErrInterval")
            /\ UNCHANGED <<interval, fresh, nSucc, nFail>>
       ELSE /\ interval' = newInterval
            /\ returned' = Ret("SetInterval", newInterval, "nil")
            /\ fresh' = FALSE
            /\ nSucc' = 0
            /\ nFail' = 0
    /\ UNCHANGED <<opts, err, ctxDone, waitCtxDone, burst, maxBurst, burstInterval, expiry, ticker, tickC, mu>>
    /\ UNCHANGED <<refillVars, callVars, sinceUse, sinceRet, ceiling>>

\* SetInterval(newInterval); the returned record keeps the argument in val.
SetInterval(p, newInterval) ==
    /\ Built
    /\ pc[p] = "idle"
    /\ mu = 0
    /\ IF newInterval < 1
       THEN /\ returned' = Ret("SetInterval", newInterval, "ErrInterval")
            /\ UNCHANGED <<interval, ticker, fresh, nSucc, nFail>>
       ELSE /\ interval' = newInterval
            /\ ticker' = TickerReset(ticker, newInterval)
            /\ returned' = Ret("SetInterval", newInterval, "nil")
            /\ fresh' = FALSE
            /\ nSucc' = 0
            /\ nFail' = 0
    /\ UNCHANGED <<opts, err, ctxDone, waitCtxDone, burst, maxBurst, burstInterval, expiry, tickC, mu>>
    /\ UNCHANGED <<refillVars, callVars, sinceUse, sinceRet, ceiling>>

Setter(p) ==
    \/ \E n \in BurstArgs : SetBurst(p, n)
    \/ \E d \in IntervalArgs : SetInterval(p, d)

\* ------------------------------------------------------------- accessors
\* MaxBurst(), CurrentBurst() and Interval() read their field without rl.mu.
MaxBurst(p) ==
    /\ Built
    /\ pc[p] = "idle"
    /\ returned' = Ret("MaxBurst", maxBurst, "nil")
    /\ UNCHANGED <<opts, err, ctxDone, waitCtxDone, rlVars, refillVars, callVars, obsVars>>

CurrentBurst(p) ==
    /\ Built
    /\ pc[p] = "idle"
    /\ returned' = Ret("CurrentBurst", burst, "nil")
    /\ UNCHANGED <<opts, err, ctxDone, waitCtxDone, rlVars, refillVars, callVars, obsVars>>

Interval(p) ==
    /\ Built
    /\ pc[p] = "idle"
    /\ returned' = Ret("Interval", interval, "nil")
    /\ UNCHANGED <<opts, err, ctxDone, waitCtxDone, rlVars, refillVars, callVars, obsVars>>

Accessor(p) == MaxBurst(p) \/ CurrentBurst(p) \/ Interval(p)

\* ------------------------------------------------------- specifications
\* Every operation of the package.
Next ==
    \/ NewRateLimiterWithBurst
    \/ Tick
    \/ CancelCtx
    \/ WaitCancel
    \/ Refill
    \/ \E p \in Procs : Use(p) \/ Wait(p) \/ Setter(p) \/ Accessor(p)

Spec == Init /\ [][Next]_vars

\* The callers call Use and the setters directly.  A Wait adds nothing to
\* what the limiter goes through: its goroutine calls Use as any caller does.
CallNext ==
    \/ NewRateLimiterWithBurst
    \/ Tick
    \/ CancelCtx
    \/ Refill
    \/ \E p \in Procs : Use(p) \/ Setter(p)

CallSpec == Init /\ [][CallNext]_vars

\* The callers call Use only: the limiter is never reconfigured.
UseNext ==
    \/ NewRateLimiterWithBurst
    \/ Tick
    \/ CancelCtx
    \/ Refill
    \/ \E p \in Procs : Use(p)

UseSpec == Init /\ [][UseNext]_vars

\* The callers call Use and the accessors.
ReadNext ==
    \/ NewRateLimiterWithBurst
    \/ Tick
    \/ CancelCtx
    \/ Refill
    \/ \E p \in Procs : Use(p) \/ Accessor(p)

ReadSpec == Init /\ [][ReadNext]_vars

\* The callers call Wait.
WaitNext ==
    \/ NewRateLimiterWithBurst
    \/ Tick
    \/ CancelCtx
    \/ WaitCancel
    \/ Refill
    \/ \E p \in Procs : Wait(p) \/ (inWait[p] /\ Use(p))

WaitSpec == Init /\ [][WaitNext]_vars

\* The callers call the setters only.
SetNext ==
    \/ NewRateLimiterWithBurst
    \/ Tick
    \/ CancelCtx
    \/ Refill
    \/ \E p \in Procs : Setter(p)

SetSpec == Init /\ [][SetNext]_vars

\* A limiter built without spacing (the spacing plays no part in what the
\* refill goroutine does).
NoSpacingInit == Init /\ opts.BurstInterval = 0

\* The callers call Use and the setters, and the refill goroutine is
\* scheduled fairly: it takes a step whenever it stays able to, and its
\* select, which chooses at random among the cases that are ready, does not
\* pass over a ready ctx.Done() for ever.
FairCallSpec ==
    /\ NoSpacingInit
    /\ [][CallNext]_vars
    /\ WF_vars(Refill)
    /\ SF_vars(RefillDone)

\* NewRateLimiter(ctx, interval): the options it hands to
\* NewRateLimiterWithBurst.
NewRateLimiter(d) == [BurstAmount |-> 1, BurstInterval |-> d, Interval |-> d]

\* A limiter built by NewRateLimiter, whose callers call Use and Wait and
\* never reconfigure it.
NewInit == Init /\ \E d \in IntervalArgs : opts = NewRateLimiter(d)

AcquireNext ==
    \/ NewRateLimiterWithBurst
    \/ Tick
    \/ CancelCtx
    \/ WaitCancel
    \/ Refill
    \/ \E p \in Procs : Use(p) \/ Wait(p)

NewSpec == NewInit /\ [][AcquireNext]_vars

\* The callers call Wait and no ctx is ever cancelled.  The Go scheduler runs
\* every runnable goroutine again and again, and time passes: the refill
\* goroutine, the goroutine of each Wait and the clock are weakly fair.
RefillLive == RefillRecv \/ RefillCheck \/ RefillLoad \/ RefillStore

WaiterStep(p) == WaitSelect(p) \/ WaitSend(p) \/ (inWait[p] /\ Use(p))

FairWaitNext ==
    \/ NewRateLimiterWithBurst
    \/ Tick
    \/ RefillLive
    \/ \E p \in Procs : WaitCall(p) \/ WaiterStep(p)

FairWaitSpec ==
    /\ Init
    /\ [][FairWaitNext]_vars
    /\ WF_vars(Tick)
    /\ WF_vars(RefillLive)
    /\ \A p \in Procs : WF_vars(WaiterStep(p))

\* --------------------------------------------------------------- properties
\* All callers are outside every call.
AllIdle == \A p \in Procs : pc[p] = "idle"

\* The step in which a caller's direct call of Use takes rl.mu and reads the
\* clock (line 87): it finds the condition true and goes on, or returns false.
UseAdmitted ==
    \E p \in Procs : ~inWait[p] /\ pc[p] = "idle" /\ pc'[p] = "expiry"

UseRefused == returned'.op = "Use" /\ returned'.val = 0

UseCalled == UseAdmitted \/ UseRefused

\* C1: in every state of a constructed limiter 0 <= rl.burst <= rl.maxBurst,
\* whatever Use, the refill goroutine, SetBurst (raising or lowering) and
\* SetInterval do.
C1_BurstWithinMax == Built => (0 <= burst /\ burst <= maxBurst)

\* C2: a Wait whose ctx is cancelled before it obtained a permit returns to
\* its caller: no caller is still blocked inside Wait once the goroutine of
\* its Wait has returned on ctx.Done(), after which nothing is left to wake
\* the caller up.
C2_CancelledWaitReturns == \A p \in Procs : ~(inWait[p] /\ pc[p] = "gone")

\* C3: with burstInterval = 0 and no tick sent since construction, once more
\* Use calls than the pool held permits have all returned, exactly maxBurst of
\* them returned true, the others false, and rl.burst is 0.
C3_ExactlyNSucceed ==
    (/\ Built
     /\ fresh
     /\ burstInterval = 0
     /\ AllIdle
     /\ nFail < MaxCount
     /\ nSucc + nFail > maxBurst)
        => (nSucc = maxBurst /\ burst = 0)

\* C4: on a fresh limiter with burstInterval = 0 and no tick sent, the k-th
\* Use call returns true when k <= maxBurst and false when k = maxBurst + 1.
C4_FirstNThenFail ==
    (/\ Built
     /\ fresh
     /\ burstInterval = 0
     /\ returned.op = "Use"
     /\ nFail < MaxCount
     /\ nSucc + nFail <= maxBurst + 1)
        => (returned.val = 1 <=> nSucc + nFail <= maxBurst)

\* C5: with maxBurst = 1 and burstInterval <= interval, and the constructor's
\* ctx not cancelled: after a successful Use, a Use called before interval
\* has elapsed since it (even counted from its reading of the clock) fails,
\* and a Use called after interval has elapsed since it (even counted from
\* its return, and with every tick sent so far handled by the refill
\* goroutine) succeeds.
C5_OnePermitPerInterval ==
    [][(/\ UseCalled
        /\ maxBurst = 1
        /\ burstInterval <= interval
        /\ ~ctxDone
        /\ sinceUse # Never)
          => /\ (sinceUse < interval => ~UseAdmitted)
             /\ (sinceRet > interval /\ refillPc = "select" /\ tickC = 0
                    => UseAdmitted)]_vars

\* C6: with burstInterval > 0 and a permit available, a Use called after a
\* successful Use succeeds exactly when at least burstInterval has elapsed
\* since that Use (burstInterval exactly included).
C6_SpacingInclusive ==
    [][(/\ UseCalled
        /\ burstInterval > 0
        /\ burst >= 1
        /\ sinceUse # Never)
          => (UseAdmitted <=> sinceUse >= burstInterval)]_vars

\* C7: when no ctx is ever cancelled, every Wait that is called returns, and
\* a Wait that returns has taken exactly one permit.
C7_WaitEventuallyReturns ==
    /\ \A p \in Procs : inWait[p] ~> ~inWait[p]
    /\ [](returned.op = "Wait" => returned.val = 1)

\* Both callers' Waits have returned, from a pool that held one permit: the
\* later one was served by a refill.
C7_BothWaitsReturned ==
    /\ returned.op = "Wait"
    /\ maxBurst = 1
    /\ \A p \in Procs : waitsLeft[p] < MaxWaits /\ ~inWait[p]

\* The refill goroutine reads or writes rl.burst or rl.maxBurst in this step.
RefillAccess == refillPc \in {"check", "load", "store"} /\ refillPc' # refillPc

\* An accessor reads its field and returns in this step.
AccessorReturns == returned'.op \in {"MaxBurst", "CurrentBurst", "Interval"}

\* C8: every access to the fields is made with rl.mu held: the refill
\* goroutine and the accessors touch them only while no other caller holds
\* rl.mu, and between the refill's check and its store nothing else changes
\* rl.burst or rl.maxBurst.
C8_AccessUnderMutex ==
    [][/\ (RefillAccess \/ AccessorReturns) => mu = 0
       /\ (refillPc \in {"load", "store"} /\ refillPc' = refillPc)
             => (burst' = burst /\ maxBurst' = maxBurst)]_vars

\* C9: SetBurst(n) with n > rl.maxBurst returns nil, sets rl.maxBurst to n and
\* leaves rl.burst as it was; and as long as SetBurst has never lowered
\* rl.maxBurst, the refill goroutine never takes rl.burst above it.
C9_RaiseKeepsBurst ==
    /\ [][(returned'.op = "SetBurst" /\ returned'.val > maxBurst)
             => /\ returned'.error = "nil"
                /\ maxBurst' = returned'.val
                /\ burst' = burst]_vars
    /\ [](ceiling # "lowered" => burst <= maxBurst)

\* After SetBurst raised the ceiling, which left rl.burst below it, the
\* refill goroutine has filled rl.burst up to the new ceiling.
C9_RefilledToRaised ==
    /\ ceiling = "raised"
    /\ burst = maxBurst
    /\ returned.op # "SetBurst"

\* C10: NewRateLimiterWithBurst returns ErrBurst when BurstAmount < 1,
\* ErrInterval when BurstAmount >= 1 and Interval < 1, and then builds no
\* limiter and starts neither ticker nor refill goroutine; with valid options
\* it returns nil and a limiter with burst = maxBurst = BurstAmount, a running
\* ticker and one refill goroutine; there is never a second refill goroutine.
C10_Constructor ==
    /\ [][(err = "pending" /\ err' # "pending")
             => /\ opts.BurstAmount < 1 => err' = "ErrBurst"
                /\ (opts.BurstAmount >= 1 /\ opts.Interval < 1)
                      => err' = "ErrInterval"
                /\ err' # "nil"
                      => /\ UNCHANGED rlVars
                         /\ ~ticker'.made
                         /\ refillSpawned' = 0
                         /\ refillPc' = "none"
                /\ (opts.BurstAmount >= 1 /\ opts.Interval >= 1)
                      => /\ err' = "nil"
                         /\ burst' = opts.BurstAmount
                         /\ maxBurst' = opts.BurstAmount
                         /\ ticker'.made /\ ticker'.active
                         /\ refillSpawned' = 1
                         /\ refillPc' = "select"]_vars
    /\ [](refillSpawned = (IF Built THEN 1 ELSE 0))
    /\ [](~Built => (~ticker.made /\ refillPc = "none"))

\* The constructor has refused a valid BurstAmount with an invalid Interval.
C10_IntervalRefused ==
    /\ err = "ErrInterval"
    /\ refillSpawned = 0
    /\ ~ticker.made

\* C11: SetBurst(n) with n < 1 returns ErrBurst and SetInterval(d) with d < 1
\* returns ErrInterval, and such a call changes no field of the limiter:
\* burst, maxBurst, interval, burstInterval, expiry and the ticker (its
\* period and the time left until its next tick) are as before.
C11_RejectedSetterFrame ==
    [][/\ (returned'.op = "SetBurst" /\ returned'.val < 1)
             => (returned'.error = "ErrBurst" /\ UNCHANGED rlVars)
       /\ (returned'.op = "SetInterval" /\ returned'.val < 1)
             => (returned'.error = "ErrInterval" /\ UNCHANGED rlVars)]_vars

\* SetInterval has just been rejected while the ticker was part of the way
\* through its period and the pool was not full.
C11_RejectedMidPeriod ==
    /\ returned.op = "SetInterval"
    /\ returned.error = "ErrInterval"
    /\ ticker.active
    /\ ticker.left < ticker.period
    /\ burst < maxBurst

\* C12: in every state of a constructed limiter rl.maxBurst >= 1 and
\* rl.interval >= 1, whatever arguments SetBurst and SetInterval were called
\* with.
C12_CeilingAndIntervalPositive == Built => (maxBurst >= 1 /\ interval >= 1)

\* SetBurst has just refused an argument below 1, after an earlier call had
\* lowered the ceiling to 1.
C12_RefusedAtFloor ==
    /\ returned.op = "SetBurst"
    /\ returned.error = "ErrBurst"
    /\ ceiling = "lowered"
    /\ maxBurst = 1

\* The refill goroutine's increment of rl.burst takes effect in this step.
RefillIncrements == refillPc = "store" /\ refillPc' = "select"

\* C13: a refill tick adds at most one permit to what is available at the
\* moment its increment takes effect; rl.burst grows in no other step, so the
\* successful Use calls never outnumber the initial permits plus the ticks
\* processed.
C13_TickAddsAtMostOne ==
    [][Built => /\ RefillIncrements => burst' <= burst + 1
                /\ ~RefillIncrements => burst' <= burst]_vars

\* C14: once the refill goroutine has exited on ctx.Done(), the ticker is
\* stopped and stays stopped: no later Use or SetInterval starts it again.
C14_TickerStaysStopped == refillPc = "exited" => ~ticker.active

\* C15: after the constructor's ctx is cancelled the refill goroutine
\* eventually exits; once it has exited it stays exited, no other refill
\* goroutine is started, and no step increases rl.burst.
C15_RefillStopsForGood ==
    /\ ctxDone ~> (refillPc = "exited")
    /\ [][refillPc = "exited"
             => /\ refillPc' = "exited"
                /\ refillSpawned' = refillSpawned
                /\ burst' <= burst]_vars

\* Long after the refill goroutine exited the pool is still empty, although
\* a tick is waiting in rl.ticker.C.
C15_EmptyAfterExit ==
    /\ refillPc = "exited"
    /\ burst = 0
    /\ tickC > 0
    /\ sinceRet = SinceCap

\* C16: a successful Use resynchronizes the refill: when the refill
\* goroutine's increment takes effect with no Use in progress, at least
\* interval has elapsed since the most recent successful Use (counted even
\* from its reading of the clock).
C16_RefillAfterFullInterval ==
    [][(/\ RefillIncrements
        /\ mu = 0
        /\ sinceUse # Never)
          => sinceUse >= interval]_vars

\* C17: a Use that returns false changes nothing: burst, maxBurst, expiry,
\* interval, burstInterval and the ticker (its period and the time left
\* until its next tick) are as before the call.
C17_RefusedUseFrame == [][UseRefused => UNCHANGED rlVars]_vars

\* Use has just been refused for the spacing alone, with a permit available
\* and the ticker part of the way through its period.
C17_RefusedForSpacing ==
    /\ returned.op = "Use"
    /\ returned.val = 0
    /\ burst > 0
    /\ expiry >= 0
    /\ ticker.active
    /\ ticker.left < ticker.period

\* Caller p's successful Use performs the statement of line 88, 89 or 90 in
\* this step.
UseSetsExpiry(p) == pc[p] = "expiry" /\ pc'[p] = "load"

UseDecrements(p) == pc[p] = "store" /\ pc'[p] = "reset"

UseResetsTicker(p) == pc[p] = "reset" /\ pc'[p] # "reset"

\* C18: a Use succeeds exactly when a permit is available and the clock has
\* reached rl.expiry (now >= expiry); a successful Use takes exactly one
\* permit from rl.burst, sets rl.expiry to now + burstInterval, restarts the
\* ticker to fire interval from now, and changes neither maxBurst nor
\* interval nor burstInterval.
C18_SuccessfulUseEffects ==
    [][/\ UseCalled => (UseAdmitted <=> (burst > 0 /\ expiry <= 0))
       /\ \A p \in Procs :
             /\ UseSetsExpiry(p) => expiry' = burstInterval
             /\ UseDecrements(p) => burst' = burst - 1
             /\ UseResetsTicker(p)
                   => (ticker'.active /\ ticker'.left = interval
                         /\ ticker'.period = interval)
             /\ pc[p] # pc'[p]
                   => UNCHANGED <<maxBurst, interval, burstInterval>>]_vars

\* C19: SetInterval(d) with d >= 1 returns nil, stores d in rl.interval and
\* restarts the ticker at once, so that its next tick is sent d after the
\* call (a tick is sent only when the time left has run out), and the call
\* changes neither rl.burst nor rl.maxBurst.
C19_SetIntervalRestartsTicker ==
    [][/\ (returned'.op = "SetInterval" /\ returned'.val >= 1)
             => /\ returned'.error = "nil"
                /\ interval' = returned'.val
                /\ ticker'.active
                /\ ticker'.period = returned'.val
                /\ ticker'.left = returned'.val
                /\ tickC' = tickC
                /\ UNCHANGED <<burst, maxBurst>>
       /\ tickC' > tickC => (ticker.active /\ ticker.left <= 1)]_vars

\* SetInterval has just set the longest interval while the pool was not full
\* and no tick was pending: the next tick is a full new interval away.
C19_RestartedWithNewInterval ==
    /\ returned.op = "SetInterval"
    /\ returned.error = "nil"
    /\ returned.val = MaxIntervalArg
    /\ ticker.left = MaxIntervalArg
    /\ burst < maxBurst
    /\ tickC = 0

\* Some caller's Use, called directly or by the goroutine of a Wait, finds
\* the condition of line 87 true in this step.
Admitted == \E p \in Procs : pc[p] # "expiry" /\ pc'[p] = "expiry"

\* C20: on a limiter built by NewRateLimiter(ctx, I) and never reconfigured,
\* a Use or Wait is admitted only when at least I has elapsed since the
\* previous successful acquisition read the clock.
C20_AcquisitionsSpacedByInterval ==
    [][(Admitted /\ sinceUse # Never)
          => (sinceUse >= interval /\ interval = burstInterval
                /\ maxBurst = 1)]_vars

\* A direct Use has just succeeded after a Wait had acquired and returned, on
\* a limiter built with the longest interval.
C20_UseAfterWait ==
    /\ returned.op = "Use"
    /\ returned.val = 1
    /\ interval = MaxIntervalArg
    /\ \E p \in Procs : waitsLeft[p] < MaxWaits /\ ~inWait[p]

====
